---- MODULE Spec2Model ----
(***************************************************************************)
(* The dataflow pattern matcher of relax (src/relax/ir/dataflow_matcher.cc)*)
(* as a state machine over one DFPatternMatcher instance.                  *)
(*                                                                         *)
(* The file under src/ holds two revisions of the matcher.  The first      *)
(* (lines 43-505) builds an expression graph and has the dominator pattern *)
(* and no auto-jump, And or Not; the second (lines 552-985) has auto-jump, *)
(* And and Not and no dominator pattern.  The dispatcher, ClearMap and the *)
(* call pattern are the same in both (with auto-jump off, TryGetValOfVar   *)
(* is the identity).  A matcher with a root expression is a matcher of the *)
(* first revision, one without a matcher of the second; each is only given *)
(* the patterns its revision handles.                                      *)
(***************************************************************************)
EXTENDS Integers, Sequences, FiniteSets, TLC

\* Number of Match calls one matcher instance serves in a behaviour.
MaxCalls == 2

(***************************************************************************)
(* Expressions.  An expression object is named by a string (its identity,  *)
(* what same_as compares); Heap gives the node behind each name.           *)
(***************************************************************************)
OpE(n) == [kind |-> "Op", name |-> n, op |-> "", args |-> <<>>]
VarE(n) == [kind |-> "Var", name |-> n, op |-> "", args |-> <<>>]
DataflowVarE(n) == [kind |-> "DataflowVar", name |-> n, op |-> "", args |-> <<>>]
ConstantE(v) == [kind |-> "Constant", name |-> v, op |-> "", args |-> <<>>]
CallE(o, as) == [kind |-> "Call", name |-> "", op |-> o, args |-> as]

Heap ==
  [ add        |-> OpE("add"),
    multiply   |-> OpE("multiply"),
    divide     |-> OpE("divide"),
    subtract   |-> OpE("subtract"),
    relu       |-> OpE("relu"),
    a          |-> VarE("a"),
    b          |-> VarE("b"),
    c          |-> ConstantE("1"),
    v0         |-> VarE("v0"),
    v1         |-> VarE("v1"),
    v2         |-> VarE("v2"),
    d          |-> DataflowVarE("d"),
    add_a_b    |-> CallE("add", <<"a", "b">>),
    add_a_a    |-> CallE("add", <<"a", "a">>),
    add_a_c    |-> CallE("add", <<"a", "c">>),
    add_v1_c   |-> CallE("add", <<"v1", "c">>),
    mul_a_c    |-> CallE("multiply", <<"a", "c">>),
    mul_c_a    |-> CallE("multiply", <<"c", "a">>),
    mul_a_b    |-> CallE("multiply", <<"a", "b">>),
    div_b_c    |-> CallE("divide", <<"b", "c">>),
    mul_a_div  |-> CallE("multiply", <<"a", "div_b_c">>),
    div_mul_c  |-> CallE("divide", <<"mul_a_b", "c">>),
    nest       |-> CallE("multiply", <<"div_b_c", "mul_a_div">>),
    sub_a_c    |-> CallE("subtract", <<"a", "c">>),
    relu_c     |-> CallE("relu", <<"c">>),
    relu_a     |-> CallE("relu", <<"a">>),
    add_b_relu |-> CallE("add", <<"b", "relu_c">>),
    add_relu_b |-> CallE("add", <<"relu_a", "b">>),
    top        |-> CallE("add", <<"a", "add_b_relu">>),
    pot        |-> CallE("add", <<"add_b_relu", "a">>),
    big        |-> CallE("add", <<"add_b_relu", "add_relu_b">>) ]

ExprIds == DOMAIN Heap

\* The "no expression" value of a matcher built without a root expression.
NoExpr == "none"

\* The Var -> Expr map handed to the matcher when it is built with one:
\* the bindings  v0 = v1,  v1 = v2  and  v2 = add(a, b)  of a dataflow block.
var2val == [v0 |-> "v1", v1 |-> "v2", v2 |-> "add_a_b"]

Range(f) == {f[i] : i \in DOMAIN f}

\* Arrays of dimensions (the values of a ShapeExpr, the shape of a shape
\* pattern), each named by a string; n is a symbolic dimension.
ShapeArrays ==
  [n_3 |-> <<"n", "3">>, n_4 |-> <<"n", "4">>, k3_n |-> <<"3", "n">>, k3 |-> <<"3">>]

\* expr->shape(): the name of the array of a ShapeExpr, "RuntimeDepShape",
\* or "undefined" for an expression without shape.  A bound variable has the
\* shape of its value.
ShapeOf ==
  [e \in ExprIds |->
     CASE e \in {"a", "v0", "v1", "v2", "add_a_b", "add_a_a", "mul_a_b"} -> "n_3"
       [] e \in {"add_a_c", "mul_a_c", "mul_c_a"} -> "n_4"
       [] e = "b" -> "k3_n"
       [] e = "c" -> "k3"
       [] Heap[e].kind = "Op" -> "undefined"
       [] OTHER -> "RuntimeDepShape"]

\* expr.as<VarNode>(): DataflowVarNode derives from VarNode.
IsVar(e) == Heap[e].kind \in {"Var", "DataflowVar"}

(***************************************************************************)
(* Patterns.  A pattern object is a record; id is its identity (the memo   *)
(* is keyed by object).  kids holds the sub-patterns: for a call pattern   *)
(* the op pattern followed by the argument patterns, for Or/And the left   *)
(* and right, for Not the rejected pattern, for a dominator pattern the    *)
(* child, the path and the parent.  argsDefined is false for a call        *)
(* pattern whose args array is undefined (unconstrained arity).            *)
(***************************************************************************)
Pat(id, kind, name, lit, kids, argsDefined) ==
  [id |-> id, kind |-> kind, name |-> name, lit |-> lit, kids |-> kids,
   argsDefined |-> argsDefined]

WildcardPattern(id) == Pat(id, "Wildcard", "", "", <<>>, FALSE)
VarPattern(id, hint) == Pat(id, "Var", hint, "", <<>>, FALSE)
DataflowVarPattern(id, hint) == Pat(id, "DataflowVar", hint, "", <<>>, FALSE)
ConstantPattern(id) == Pat(id, "Constant", "", "", <<>>, FALSE)
ExprPattern(id, e) == Pat(id, "ExprLit", "", e, <<>>, FALSE)
CallPattern(id, op, args) == Pat(id, "Call", "", "", <<op>> \o args, TRUE)
CallPatternAnyArgs(id, op) == Pat(id, "Call", "", "", <<op>>, FALSE)
OrPattern(id, l, r) == Pat(id, "Or", "", "", <<l, r>>, FALSE)
AndPattern(id, l, r) == Pat(id, "And", "", "", <<l, r>>, FALSE)
NotPattern(id, p) == Pat(id, "Not", "", "", <<p>>, FALSE)
ShapePattern(id, p, shape) == Pat(id, "Shape", "", shape, <<p>>, FALSE)
DominatorPattern(id, child, path, parent) ==
  Pat(id, "Dominator", "", "", <<child, path, parent>>, FALSE)

CallOp(p) == p.kids[1]
CallArgs(p) == Tail(p.kids)

RECURSIVE PatIds(_)
PatIds(p) == {p.id} \cup UNION {PatIds(p.kids[i]) : i \in DOMAIN p.kids}

RECURSIVE HasKind(_, _)
HasKind(p, k) == p.kind = k \/ \E i \in DOMAIN p.kids : HasKind(p.kids[i], k)

(***************************************************************************)
(* The expression graph the matcher builds from its root expression        *)
(* (dataflow_matcher_impl.h, not among the sources): every node's inputs   *)
(* and its children in the dominator tree.                                 *)
(***************************************************************************)
\* Direct data-flow inputs of a node: a call's op, then its arguments.
Inputs(e) == IF Heap[e].kind = "Call" THEN <<Heap[e].op>> \o Heap[e].args ELSE <<>>

RECURSIVE PostDfsVisit(_, _)
RECURSIVE PostDfsInputs(_, _, _)
PostDfsVisit(e, acc) ==
  IF e \in Range(acc) THEN acc ELSE Append(PostDfsInputs(Inputs(e), 1, acc), e)
PostDfsInputs(ins, i, acc) ==
  IF i > Len(ins) THEN acc ELSE PostDfsInputs(ins, i + 1, PostDfsVisit(ins[i], acc))

\* The nodes of the graph rooted at r, inputs before users.
PostDfs(r) == IF r = NoExpr THEN <<>> ELSE PostDfsVisit(r, <<>>)

GraphNodes(r) == Range(PostDfs(r))

Users(r, n) == {m \in GraphNodes(r) : n \in Range(Inputs(m))}

\* The elements common to all sets of S.
Common(S) == {d \in UNION S : \A X \in S : d \in X}

\* The nodes every data-flow path from n to the root r passes through.
RECURSIVE Dominators(_, _)
Dominators(r, n) ==
  IF n = r THEN {r}
  ELSE {n} \cup Common({Dominators(r, m) : m \in Users(r, n)})

\* The dominator of n, among doms, that all its other dominators dominate.
Closest(r, n, doms) == CHOOSE d \in doms \ {n} : Dominators(r, d) = doms \ {n}

DominatorParent(r, n) == Closest(r, n, Dominators(r, n))

ReverseSeq(q) == [i \in 1..Len(q) |-> q[Len(q) + 1 - i]]

SelectBy(q, S) == SelectSeq(q, LAMBDA x : x \in S)

\* node_map_: for every root and every node of its graph, inputs_ and
\* dominator_children_ (filled from the last node of the order to the first).
GraphOf(order, parent) ==
  [n \in Range(order) |->
     [inputs_ |-> Inputs(n),
      dominator_children_ |->
        SelectBy(ReverseSeq(order), {k \in DOMAIN parent : parent[k] = n})]]

ExprGraph ==
  [r \in ExprIds |->
     GraphOf(PostDfs(r), [k \in GraphNodes(r) \ {r} |-> DominatorParent(r, k)])]

\* expr_graph_.node_map_.at(expr) throws when expr is no node of the graph.
InGraph(r, e) == r # NoExpr /\ e \in DOMAIN ExprGraph[r]

(***************************************************************************)
(* The matcher.  Every operator below takes the matcher's state m, a       *)
(* record of its fields                                                    *)
(*   memo (pattern id -> the expressions pushed for it), mn                *)
(*   (matched_nodes_), memoize, autojump, hasMap (var2val_ is defined),    *)
(*   root (the expression the graph was built from), fresh (the patterns   *)
(*   constructed so far by the associative rewrites), built (for every     *)
(*   rewrite: the call pattern whose handler made it, the expression it    *)
(*   was made on and the patterns it constructed), active (the nodes       *)
(*   pushed so far by each running DominatesParent, innermost last) and    *)
(*   pushes (the same for the finished ones),                              *)
(* and returns the state after the call, with out (the returned bool) and  *)
(* err (an ICHECK failed or an exception was thrown: the call did not      *)
(* return, and every caller up to Match is unwound).  log collects, for    *)
(* every call of the dispatcher, the state it was entered and left in.     *)
(***************************************************************************)
Return(m, b) == [m EXCEPT !.out = b]
Raise(m) == [m EXCEPT !.err = TRUE, !.out = FALSE]

EmptyMemo == [k \in {} |-> <<>>]

\* A memo that records the patterns of the user's tree only.
MemoPushUserOnly(memo, id, expr) ==
  IF id < 0 THEN memo
  ELSE IF id \in DOMAIN memo THEN [memo EXCEPT ![id] = Append(@, expr)]
  ELSE memo @@ (id :> <<expr>>)

\* memo_[pattern].push_back(expr)
MemoPush(memo, id, expr) ==
  IF id \in DOMAIN memo THEN [memo EXCEPT ![id] = Append(@, expr)]
  ELSE memo @@ (id :> <<expr>>)

\* memo_.erase(k) for every k in ids
MemoErase(memo, ids) == [k \in DOMAIN memo \ ids |-> memo[k]]

\* An ICHECK that fails whenever auto-jump is on and no var2val map is given.
FailsWithoutMap(m, expr) == m.autojump /\ ~m.hasMap

\* A TryGetValOfVar that never jumps.
NeverJump(m, expr) == expr

\* The ICHECK of TryGetValOfVar: auto-jump on a Var without a var2val map.
TryGetValOfVarFails(m, expr) == m.autojump /\ IsVar(expr) /\ ~m.hasMap

TryGetValOfVar(m, expr) ==
  IF ~m.autojump THEN expr
  ELSE IF IsVar(expr) /\ expr \in DOMAIN var2val THEN var2val[expr]
  ELSE expr

\* A ClearMap that truncates matched_nodes_ and leaves memo_ as it is.
ClearMapKeepsMemo(m, watermark) == [m EXCEPT !.mn = SubSeq(m.mn, 1, watermark)]

\* ClearMap(watermark): every pattern recorded after the watermark is erased
\* from memo_ (the whole key), then matched_nodes_ is cut to the watermark.
ClearMap(m, watermark) ==
  [m EXCEPT !.memo = MemoErase(m.memo, {m.mn[i] : i \in (watermark + 1)..Len(m.mn)}),
            !.mn = SubSeq(m.mn, 1, watermark)]

\* One entry of the dispatcher log.
Visit(m0, pattern, expr, m1) ==
  [pat |-> pattern.id, kind |-> pattern.kind, expr |-> expr,
   memo0 |-> m0.memo, mn0 |-> m0.mn, memoize0 |-> m0.memoize,
   memo1 |-> m1.memo, mn1 |-> m1.mn, memoize1 |-> m1.memoize,
   out |-> m1.out, err |-> m1.err]

Logged(m0, pattern, expr, m1) ==
  [m1 EXCEPT !.log = @ \cup {Visit(m0, pattern, expr, m1)}]

\* StructuralEqual()(lhs, rhs) on expressions: deep equality; operators are
\* registry singletons and free variables are equal only to themselves.
RECURSIVE StructuralEqual(_, _)
StructuralEqual(lhs, rhs) ==
  /\ Heap[lhs].kind = Heap[rhs].kind
  /\ CASE Heap[lhs].kind = "Call" ->
            /\ StructuralEqual(Heap[lhs].op, Heap[rhs].op)
            /\ Len(Heap[lhs].args) = Len(Heap[rhs].args)
            /\ \A i \in DOMAIN Heap[lhs].args :
                 StructuralEqual(Heap[lhs].args[i], Heap[rhs].args[i])
       [] Heap[lhs].kind = "Constant" -> Heap[lhs].name = Heap[rhs].name
       [] OTHER -> lhs = rhs

\* reverse(args)
reverse(args) == [i \in 1..Len(args) |-> args[Len(args) + 1 - i]]

\* get_op_node: the name of the operator a call pattern's op is the literal
\* of, "" when the op pattern is no expression literal of an operator.
get_op_node(op) ==
  IF CallOp(op).kind = "ExprLit" /\ Heap[CallOp(op).lit].kind = "Op"
  THEN Heap[CallOp(op).lit].name ELSE ""

is_pattern_op(op, op_type) == op.kind = "Call" /\ get_op_node(op) = op_type

is_expr_op(expr, op_type) ==
  /\ Heap[expr].kind = "Call"
  /\ Heap[Heap[expr].op].kind = "Op"
  /\ Heap[Heap[expr].op].name = op_type

\* Array::operator[] checks its index: args[i] (counted from 1 here) fails on
\* an undefined array and on an index past the end.
PatternArgFails(op, i) == ~op.argsDefined \/ Len(CallArgs(op)) < i
ExprArgFails(expr, i) == Len(Heap[expr].args) < i

\* Pattern objects constructed during the match that are told apart only
\* inside one rewrite.
StaleId(m, k) == 0 - k

\* A pattern object constructed during the match: its identity is new.
NewId(m, k) == 0 - (m.fresh + k)

\* The matcher once the handler of the call pattern op has constructed the
\* two patterns of a rewrite for expr.
Rewritten(m, op, expr) ==
  [m EXCEPT !.fresh = @ + 2,
            !.built = @ \cup {[by |-> op.id, expr |-> expr,
                               ids |-> {NewId(m, 1), NewId(m, 2)}]}]

\* stack.push(node) in the innermost running DominatesParent
StackPush(m, node) == [m EXCEPT !.active[Len(m.active)] = Append(@, node)]

\* DominatesParent has returned: its pushes are filed.
Returned(r) ==
  IF r.err THEN r
  ELSE [r EXCEPT !.active = SubSeq(@, 1, Len(@) - 1),
                 !.pushes = @ \cup {r.active[Len(r.active)]}]

RECURSIVE VisitDFPattern(_, _, _)
RECURSIVE Dispatch(_, _, _)
RECURSIVE MatchArgsLoop(_, _, _, _)
RECURSIVE AssociateDivide(_, _, _, _, _, _)
RECURSIVE AssociateMultiply(_, _, _, _)
RECURSIVE MatchesPath(_, _, _)
RECURSIVE MatchesPathLoop(_, _, _, _)
RECURSIVE DominatesParentLoop(_, _, _, _)
RECURSIVE DominatesParentChildren(_, _, _, _, _, _)

(* Each operator below that continues after a call takes the state r the   *)
(* call returned as its first parameter.                                   *)

\* A dispatcher that records a match and leaves a failed attempt as it is.
KeepOnFailure(r, pattern, expr, watermark) ==
  IF r.err \/ ~r.out THEN r
  ELSE [r EXCEPT !.memo = MemoPush(r.memo, pattern.id, expr),
                 !.mn = Append(r.mn, pattern.id)]

\* The dispatcher after the handler returned r: record the match, or roll
\* back to the watermark taken before the handler ran.
Conclude(r, pattern, expr, watermark) ==
  IF r.err THEN r
  ELSE IF r.out
       THEN [r EXCEPT !.memo = MemoPush(r.memo, pattern.id, expr),
                      !.mn = Append(r.mn, pattern.id)]
       ELSE ClearMap(r, watermark)

\* The dispatcher once expr0 has been replaced by the value of the var.
VisitJumped(m, pattern, expr) ==
  IF m.memoize /\ pattern.id \in DOMAIN m.memo
  THEN IF Len(m.memo[pattern.id]) # 1
       THEN Raise(m)
       ELSE Return(m, expr = m.memo[pattern.id][1])
  ELSE Conclude(Dispatch(m, pattern, expr), pattern, expr, Len(m.mn))

\* DFPatternMatcher::VisitDFPattern(pattern, expr0): the dispatcher.
VisitDFPattern(m, pattern, expr0) ==
  IF TryGetValOfVarFails(m, expr0) THEN Logged(m, pattern, expr0, Raise(m))
  ELSE Logged(m, pattern, TryGetValOfVar(m, expr0),
              VisitJumped(m, pattern, TryGetValOfVar(m, expr0)))

\* l || VisitDFPattern(right, expr)
OrElse(l, right, expr) ==
  IF l.err \/ l.out THEN l ELSE VisitDFPattern(l, right, expr)

\* l && VisitDFPattern(right, expr)
AndThen(l, right, expr) ==
  IF l.err \/ ~l.out THEN l ELSE VisitDFPattern(l, right, expr)

\* !r
Negated(r) == IF r.err THEN r ELSE Return(r, ~r.out)

VisitOrPattern(m, op, expr0) ==
  IF TryGetValOfVarFails(m, expr0) THEN Raise(m)
  ELSE OrElse(VisitDFPattern(m, op.kids[1], TryGetValOfVar(m, expr0)),
              op.kids[2], TryGetValOfVar(m, expr0))

VisitAndPattern(m, op, expr0) ==
  IF TryGetValOfVarFails(m, expr0) THEN Raise(m)
  ELSE AndThen(VisitDFPattern(m, op.kids[1], TryGetValOfVar(m, expr0)),
               op.kids[2], TryGetValOfVar(m, expr0))

VisitNotPattern(m, op, expr0) ==
  IF TryGetValOfVarFails(m, expr0) THEN Raise(m)
  ELSE Negated(VisitDFPattern(m, op.kids[1], TryGetValOfVar(m, expr0)))

VisitExprPattern(m, op, expr0) ==
  IF TryGetValOfVarFails(m, expr0) THEN Raise(m)
  ELSE Return(m, StructuralEqual(op.lit, TryGetValOfVar(m, expr0)))

\* No jump in the handler of a var pattern, a dataflow var pattern, a
\* constant pattern or a wildcard.
AnyExprIsVar(m, op, expr) == Return(m, TRUE)

VisitVarPattern(m, op, expr) ==
  Return(m, IsVar(expr) /\ (op.name = "" \/ op.name = Heap[expr].name))

\* A dataflow var pattern handled as the var pattern it derives from.
AsVarPattern(m, op, expr) == VisitVarPattern(m, op, expr)

VisitDataflowVarPattern(m, op, expr) ==
  IF Heap[expr].kind = "DataflowVar" THEN VisitVarPattern(m, op, expr)
  ELSE Return(m, FALSE)

VisitConstantPattern(m, op, expr) == Return(m, Heap[expr].kind = "Constant")

VisitWildcardPattern(m, op, expr) == Return(m, TRUE)

\* analyzer.Simplify(x == y) is one: constants of the same value, or the
\* same symbolic dimension.
ProvedEqual(x, y) == x = y

\* A shape comparison that looks at the number of dimensions only.
SameRank(lhs, rhs) == Len(lhs) = Len(rhs)

shape_equal(lhs, rhs) ==
  /\ Len(lhs) = Len(rhs)
  /\ \A i \in 1..Len(lhs) : ProvedEqual(lhs[i], rhs[i])

\* No jump in the handler of a shape pattern.
VisitShapePattern(m, op, expr) ==
  IF ShapeOf[expr] \in DOMAIN ShapeArrays
  THEN IF shape_equal(ShapeArrays[op.lit], ShapeArrays[ShapeOf[expr]])
       THEN VisitDFPattern(m, op.kids[1], expr)
       ELSE Return(m, FALSE)
  ELSE Return(m, FALSE)

\* The while loop of match_args after argument i was visited.
MatchArgsNext(r, pattern_args, expr_args, i) ==
  IF r.err \/ ~r.out THEN r ELSE MatchArgsLoop(r, pattern_args, expr_args, i + 1)

\* The while loop of match_args: the arguments in order from the i-th, up
\* to the first that does not match.
MatchArgsLoop(m, pattern_args, expr_args, i) ==
  IF i > Len(pattern_args) THEN Return(m, TRUE)
  ELSE MatchArgsNext(VisitDFPattern(m, pattern_args[i], expr_args[i]),
                     pattern_args, expr_args, i)

\* A match_args that leaves the bindings of a failed attempt in place.
KeepFailedArgs(r, watermark2) == r

\* The end of match_args: a failed attempt is rolled back to watermark2.
MatchArgsEnd(r, watermark2) ==
  IF r.err \/ r.out THEN r ELSE ClearMap(r, watermark2)

match_args(m, pattern_args, defined, expr_args, watermark2) ==
  MatchArgsEnd(IF ~defined THEN Return(m, TRUE)
               ELSE IF Len(pattern_args) = Len(expr_args)
                    THEN MatchArgsLoop(m, pattern_args, expr_args, 1)
                    ELSE Return(m, FALSE),
               watermark2)

\* A call pattern that retries its arguments reversed whatever its op is.
AlwaysCommutative(std, op, expr, watermark2) ==
  IF std.err \/ std.out THEN std
  ELSE match_args(std, reverse(CallArgs(op)), TRUE, Heap[expr].args, watermark2)

\* Commutative matching, after the arguments in order ended in std.
CommutativeMatching(std, op, expr, watermark2) ==
  IF std.err \/ std.out THEN std
  ELSE IF get_op_node(op) \in {"add", "multiply"}
       THEN match_args(std, reverse(CallArgs(op)), TRUE, Heap[expr].args, watermark2)
       ELSE Return(std, FALSE)

\* The branch of the call pattern taken when the op matched: the arguments
\* in order (the standard case), then commutative matching.
MatchCallArgs(m, op, expr) ==
  CommutativeMatching(match_args(m, CallArgs(op), op.argsDefined, Heap[expr].args,
                                 Len(m.mn)),
                      op, expr, Len(m.mn))

\* associate divide/multiply after the rewrite number arg_id was visited.
AssociateDivideNext(r, op, arg_node, expr, watermark, arg_id) ==
  IF r.err \/ r.out THEN r
  ELSE AssociateDivide(ClearMap(r, watermark), op, arg_node, expr, watermark,
                       arg_id + 1)

\* A call pattern without the rewrites of (a * b) / c.
NoAssociateDivide(m, op, arg_node, expr, watermark, arg_id) == Return(m, FALSE)

\* associate divide/multiply: the two rewrites of (a * b) / c.
AssociateDivide(m, op, arg_node, expr, watermark, arg_id) ==
  IF arg_id >= 2 THEN Return(m, FALSE)
  ELSE IF \/ PatternArgFails(arg_node, arg_id + 1) \/ PatternArgFails(op, 2)
          \/ PatternArgFails(arg_node, ((arg_id + 1) % 2) + 1)
       THEN Raise(m)
  ELSE
    LET div == CallPattern(NewId(m, 1), CallOp(op),
                           <<CallArgs(arg_node)[arg_id + 1], CallArgs(op)[2]>>)
        mul == CallPattern(NewId(m, 2), CallOp(arg_node),
                           <<CallArgs(arg_node)[((arg_id + 1) % 2) + 1], div>>)
    IN AssociateDivideNext(VisitDFPattern(Rewritten(m, op, expr), mul, expr),
                           op, arg_node, expr, watermark, arg_id)

\* A call pattern without the rewrite of a * (b / c).
NoAssociateMultiply(m, op, expr, arg_id) == Return(m, FALSE)

\* associate multiply/divide: the rewrite of a * (b / c).
AssociateMultiply(m, op, expr, arg_id) ==
  IF arg_id >= 2 THEN Return(m, FALSE)
  ELSE IF PatternArgFails(op, arg_id + 1) THEN Raise(m)
  ELSE
    LET arg_node == CallArgs(op)[arg_id + 1] IN
    IF arg_node.kind = "Call" /\ is_pattern_op(arg_node, "divide")
       /\ is_expr_op(expr, "divide")
    THEN IF ExprArgFails(expr, 1) THEN Raise(m)
         ELSE IF ~is_expr_op(Heap[expr].args[1], "multiply") /\ ExprArgFails(expr, 2)
              THEN Raise(m)
         ELSE IF \/ is_expr_op(Heap[expr].args[1], "multiply")
                 \/ is_expr_op(Heap[expr].args[2], "multiply")
              THEN IF \/ PatternArgFails(arg_node, 1)
                      \/ PatternArgFails(op, ((arg_id + 1) % 2) + 1)
                      \/ PatternArgFails(arg_node, 2)
                   THEN Raise(m)
                   ELSE
                     LET mul == CallPattern(NewId(m, 1), CallOp(op),
                                  <<CallArgs(arg_node)[1],
                                    CallArgs(op)[((arg_id + 1) % 2) + 1]>>)
                         div == CallPattern(NewId(m, 2), CallOp(arg_node),
                                  <<mul, CallArgs(arg_node)[2]>>)
                     IN VisitDFPattern(Rewritten(m, op, expr), div, expr)
              ELSE AssociateMultiply(m, op, expr, arg_id + 1)
    ELSE AssociateMultiply(m, op, expr, arg_id + 1)

\* The branch of the call pattern taken when the op did not match.
Associate(m, op, expr, watermark) ==
  IF is_pattern_op(op, "divide")
  THEN IF PatternArgFails(op, 1) THEN Raise(m)
       ELSE
         LET arg_node == CallArgs(op)[1] IN
         IF arg_node.kind = "Call" /\ is_pattern_op(arg_node, "multiply")
            /\ is_expr_op(expr, "multiply")
         THEN IF ExprArgFails(expr, 1) THEN Raise(m)
              ELSE IF ~is_expr_op(Heap[expr].args[1], "divide") /\ ExprArgFails(expr, 2)
                   THEN Raise(m)
              ELSE IF \/ is_expr_op(Heap[expr].args[1], "divide")
                      \/ is_expr_op(Heap[expr].args[2], "divide")
                   THEN AssociateDivide(m, op, arg_node, expr, watermark, 0)
                   ELSE Return(m, FALSE)
         ELSE Return(m, FALSE)
  ELSE IF is_pattern_op(op, "multiply") THEN AssociateMultiply(m, op, expr, 0)
  ELSE Return(m, FALSE)

\* The call pattern after its op pattern was visited.
CallAfterOp(matches_op, op, expr, watermark) ==
  IF matches_op.err THEN matches_op
  ELSE IF matches_op.out THEN MatchCallArgs(matches_op, op, expr)
  ELSE Associate(ClearMap(matches_op, watermark), op, expr, watermark)

VisitCallPattern(m, op, expr0) ==
  IF TryGetValOfVarFails(m, expr0) THEN Raise(m)
  ELSE
    LET expr == TryGetValOfVar(m, expr0) IN
    IF Heap[expr].kind # "Call" THEN Return(m, FALSE)
    ELSE CallAfterOp(VisitDFPattern(m, CallOp(op), Heap[expr].op), op, expr, Len(m.mn))

\* MatchesPath after the recursive call for input i returned.
PathAfterRest(rest, op, expr, i) ==
  IF rest.err \/ ~rest.out THEN rest ELSE MatchesPathLoop(rest, op, expr, i + 1)

\* MatchesPath after the path pattern was visited on input i.
PathAfterPath(path, op, expr, node, i) ==
  IF path.err \/ ~path.out THEN path
  ELSE PathAfterRest(MatchesPath(path, op, node), op, expr, i)

\* MatchesPath after the parent pattern was visited on input i.
PathAfterParent(parent, op, expr, node, i) ==
  IF parent.err \/ parent.out THEN parent
  ELSE PathAfterPath(VisitDFPattern([parent EXCEPT !.memoize = FALSE], op.kids[2], node),
                     op, expr, node, i)

\* Recursively find the Dominator parent along all inputs paths: the loop
\* over the inputs of expr, from input i on.
MatchesPathLoop(m, op, expr, i) ==
  IF i > Len(ExprGraph[m.root][expr].inputs_) THEN Return(m, TRUE)
  ELSE
    LET node == ExprGraph[m.root][expr].inputs_[i] IN
    IF Heap[expr].kind = "Call" /\ node = Heap[expr].op
    THEN MatchesPathLoop(m, op, expr, i + 1)
    ELSE PathAfterParent(VisitDFPattern([m EXCEPT !.memoize = TRUE], op.kids[3], node),
                         op, expr, node, i)

MatchesPath(m, op, expr) ==
  IF ~InGraph(m.root, expr) THEN Raise(m) ELSE MatchesPathLoop(m, op, expr, 1)

\* DominatesParent after the parent pattern was visited on child i.
\* done: the function has returned (true, or by an error).
DominatesAfterParent(r, op, children, i, stack, visited) ==
  IF r.err \/ r.out
  THEN [m |-> r, stack |-> stack, visited |-> visited, done |-> TRUE]
  ELSE DominatesParentChildren(StackPush(r, children[i]), op, children, i + 1,
                               Append(stack, children[i]), visited \cup {children[i]})

\* The for loop of DominatesParent over the dominator children of the node
\* just popped, from child i on.
DominatesParentChildren(m, op, children, i, stack, visited) ==
  IF i > Len(children) THEN [m |-> m, stack |-> stack, visited |-> visited, done |-> FALSE]
  ELSE IF children[i] \in visited
       THEN DominatesParentChildren(m, op, children, i + 1, stack, visited)
       ELSE DominatesAfterParent(VisitDFPattern(m, op.kids[3], children[i]),
                                 op, children, i, stack, visited)

\* The while loop of DominatesParent after the children of one node.
DominatesAfterChildren(r, op) ==
  IF r.done THEN r.m ELSE DominatesParentLoop(r.m, op, r.stack, r.visited)

\* The while loop of DominatesParent; the last element of stack is its top.
DominatesParentLoop(m, op, stack, visited) ==
  IF stack = <<>> THEN Return(m, FALSE)
  ELSE IF ~InGraph(m.root, stack[Len(stack)]) THEN Raise(m)
  ELSE DominatesAfterChildren(
         DominatesParentChildren(m, op,
           ExprGraph[m.root][stack[Len(stack)]].dominator_children_, 1,
           SubSeq(stack, 1, Len(stack) - 1), visited),
         op)

\* Iteratively ensure that the parent is dominated somewhere by the child or
\* the path.
DominatesParent(m, op, expr) ==
  Returned(DominatesParentLoop([m EXCEPT !.active = Append(@, <<expr>>)], op,
                               <<expr>>, {}))

\* The dominator pattern after MatchesPath returned.
DominatorAfterPath(matches_path, op, expr) ==
  IF matches_path.err THEN matches_path
  ELSE IF matches_path.out
       THEN DominatesParent([matches_path EXCEPT !.memoize = TRUE], op, expr)
       ELSE Return([matches_path EXCEPT !.memoize = TRUE], FALSE)

\* The dominator pattern after its child pattern was visited.
DominatorAfterChild(child, op, expr) ==
  IF child.err THEN child
  ELSE IF child.out THEN DominatorAfterPath(MatchesPath(child, op, expr), op, expr)
  ELSE Return(child, FALSE)

VisitDominatorPattern(m, op, expr) ==
  DominatorAfterChild(VisitDFPattern(m, op.kids[1], expr), op, expr)

\* DFPatternFunctor::VisitDFPattern: the handler of the pattern's variant.
Dispatch(m, pattern, expr) ==
  CASE pattern.kind = "Wildcard" -> VisitWildcardPattern(m, pattern, expr)
    [] pattern.kind = "Var" -> VisitVarPattern(m, pattern, expr)
    [] pattern.kind = "DataflowVar" -> VisitDataflowVarPattern(m, pattern, expr)
    [] pattern.kind = "Constant" -> VisitConstantPattern(m, pattern, expr)
    [] pattern.kind = "ExprLit" -> VisitExprPattern(m, pattern, expr)
    [] pattern.kind = "Call" -> VisitCallPattern(m, pattern, expr)
    [] pattern.kind = "Or" -> VisitOrPattern(m, pattern, expr)
    [] pattern.kind = "And" -> VisitAndPattern(m, pattern, expr)
    [] pattern.kind = "Not" -> VisitNotPattern(m, pattern, expr)
    [] pattern.kind = "Dominator" -> VisitDominatorPattern(m, pattern, expr)
    [] pattern.kind = "Shape" -> VisitShapePattern(m, pattern, expr)

\* DFPatternMatcher::Match(pattern, expr, autojump)
Match(m, pattern, expr, aj) ==
  VisitDFPattern([m EXCEPT !.autojump = aj, !.memo = EmptyMemo, !.mn = <<>>],
                 pattern, expr)

\* A matcher as its constructor leaves it, for the graph of root r and with
\* (or without) a var2val map.
NewMatcher(r, withMap) ==
  [memo |-> EmptyMemo, mn |-> <<>>, memoize |-> TRUE, autojump |-> FALSE,
   hasMap |-> withMap, root |-> r, fresh |-> 0, built |-> {}, active |-> <<>>,
   pushes |-> {}, err |-> FALSE, out |-> FALSE, log |-> {}]

(***************************************************************************)
(* MatchRetValue(lhs, rhs): the literal of an attribute pattern against a  *)
(* runtime attribute value.  A literal is an object of class kind; a       *)
(* runtime value has a type code and, behind kTVMObjectHandle, an object.  *)
(* The result is "true", "false" or "raise" (an ICHECK failed).            *)
(***************************************************************************)
Object(kind, value) == [kind |-> kind, value |-> value]
RetValue(code, kind, value) == [code |-> code, kind |-> kind, value |-> value]

NoValue == Object("none", "")

Bool(b) == IF b THEN "true" ELSE "false"

\* lhs.as<tir::StringImmNode>() or lhs.as<StringObj>()
IsStringLiteral(lhs) == lhs.kind \in {"StringImm", "StringObj"}

\* node.StructuralEqual on two objects: the same class and the same content.
ObjectsEqual(lhs, rhs) == lhs.kind = rhs.kind /\ lhs.value = rhs.value

\* A kTVMDataType case that breaks out of the switch on a literal that is
\* no string.
DataTypeBreaks(lhs, rhs) ==
  IF IsStringLiteral(lhs) THEN Bool(rhs.value = lhs.value) ELSE "false"

\* case kTVMDataType
DataTypeCase(lhs, rhs) ==
  IF IsStringLiteral(lhs) THEN Bool(rhs.value = lhs.value) ELSE "raise"

\* case kTVMObjectHandle
ObjectHandleCase(lhs, rhs) ==
  IF rhs.kind = "StringObj"
  THEN IF IsStringLiteral(lhs) THEN Bool(rhs.value = lhs.value) ELSE "false"
  ELSE Bool(ObjectsEqual(lhs, rhs))

MatchRetValue(lhs, rhs) ==
  CASE rhs.code = "kDLInt" ->
         IF lhs.kind = "IntImm" THEN Bool(lhs.value = rhs.value) ELSE "false"
    [] rhs.code = "kDLFloat" ->
         IF lhs.kind = "FloatImm" THEN Bool(lhs.value = rhs.value) ELSE "false"
    [] rhs.code = "kTVMStr" ->
         IF IsStringLiteral(lhs) THEN Bool(lhs.value = rhs.value) ELSE "false"
    [] rhs.code = "kTVMDataType" -> DataTypeCase(lhs, rhs)
    [] rhs.code = "kTVMObjectHandle" -> ObjectHandleCase(lhs, rhs)
    [] OTHER -> "raise"

\* The literals and runtime values MatchRetValue is called on.  Every
\* content is named by a string: a number by its digits, a dtype by its
\* string form.
Strings == {"float32", "int8"}
Literals ==
  {Object(k, v) : k \in {"IntImm", "FloatImm"}, v \in {"1", "2"}}
    \cup {Object(k, v) : k \in {"StringImm", "StringObj"}, v \in Strings}
    \cup {Object("Array", v) : v \in {"x", "y"}}
RetValues ==
  {RetValue(c, "", v) : c \in {"kDLInt", "kDLFloat"}, v \in {"1", "2"}}
    \cup {RetValue(c, "", v) : c \in {"kTVMStr", "kTVMDataType"}, v \in Strings}
    \cup {RetValue("kTVMObjectHandle", o.kind, o.value) :
             o \in {l \in Literals : l.kind # "StringImm"}}
    \cup {RetValue(c, "", "") : c \in {"kTVMNullptr", "kTVMOpaqueHandle", "kTVMBytes"}}

(***************************************************************************)
(* The patterns and expressions the calls are drawn from.  Ids are unique  *)
(* inside every pattern tree; a pattern object used at two places of a     *)
(* tree is the same record at both.                                        *)
(***************************************************************************)
W1 == WildcardPattern(1)
W2 == WildcardPattern(2)
W3 == WildcardPattern(3)
W4 == WildcardPattern(4)
V == VarPattern(5, "")
Va == VarPattern(6, "a")
K == ConstantPattern(7)
LAdd == ExprPattern(8, "add")
LMul == ExprPattern(9, "multiply")
LDiv == ExprPattern(10, "divide")
LSub == ExprPattern(11, "subtract")
LRelu == ExprPattern(12, "relu")
\* add(_, _), add(x, x) with one pattern object x, relu(_)
AddWW == CallPattern(13, LAdd, <<W1, W2>>)
AddVV == CallPattern(14, LAdd, <<V, V>>)
Relu == CallPattern(15, LRelu, <<W3>>)
\* Dominator patterns.  DomRelu: relu(_) as parent behind any path.
\* DomCall: a path that is a binary call of variable and anything, or
\* anything at all.  DomShared: the parent relu(W3) shares W3 with the path.
\* DomDiv: a path of divide calls of any arity.
DomRelu == DominatorPattern(16, W1, W2, Relu)
DomCall ==
  DominatorPattern(17, W1, OrPattern(18, CallPattern(19, W2, <<V, W3>>), W4), LMul)
DomShared == DominatorPattern(20, W1, W3, Relu)
DomDiv == DominatorPattern(21, W1, CallPatternAnyArgs(22, LDiv), K)
\* DomVar: a variable as parent behind a path of constants.
DomVar == DominatorPattern(23, W1, K, V)

\* (a * b) / c, a * (b / c) and (b / c) * a over leaf patterns a, b, c
DivOfMul(a, b, c) == CallPattern(40, LDiv, <<CallPattern(41, LMul, <<a, b>>), c>>)
MulOfDiv(a, b, c) == CallPattern(42, LMul, <<a, CallPattern(43, LDiv, <<b, c>>)>>)
DivTimes(a, b, c) == CallPattern(42, LMul, <<CallPattern(43, LDiv, <<b, c>>), a>>)

\* ((x * y) * w) / k: the first factor is a multiply call pattern itself
NestedDivOfMul ==
  CallPattern(40, LDiv,
              <<CallPattern(41, LMul, <<CallPattern(52, LMul, <<W1, V>>), W2>>), K>>)

\* multiply(x, y) with two empty-hint Var pattern objects
MulVV == CallPattern(45, LMul, <<V, VarPattern(44, "")>>)
\* divide and multiply call patterns with args absent or fewer than two
DivAny == CallPatternAnyArgs(46, LDiv)
MulAny == CallPatternAnyArgs(47, LMul)
MulOne == CallPattern(48, LMul, <<W1>>)
DivOne == CallPattern(49, LDiv, <<CallPattern(50, LMul, <<W1, W2>>)>>)
ShortCalls == {DivAny, MulAny, MulOne, DivOne}
\* shape patterns over a wildcard and over a Var pattern
ShapePatterns ==
  {ShapePattern(51, p, shape) : p \in {W1, V}, shape \in DOMAIN ShapeArrays}

Plain == {W1, V, Va, K, LAdd, AddWW, AddVV, Relu}
Dominating == {DomRelu, DomCall, DomShared, DomDiv, DomVar}
LawPatterns == {V, Va, K, AddWW, Relu, DomRelu, DomShared}
ArgPatterns == {W1, V, Va, K, Relu, DomShared}

NotPatterns == {NotPattern(30, p) : p \in Plain}
AndPatterns == {AndPattern(31, l, r) : l \in LawPatterns, r \in LawPatterns}
OrPatterns == {OrPattern(32, l, r) : l \in LawPatterns, r \in LawPatterns}
BinaryCallPatterns ==
  {CallPattern(33, o, <<x, y>>) : o \in {LAdd, LMul, LSub}, x \in ArgPatterns,
                                  y \in ArgPatterns}

\* Not below other patterns: the rejected pattern is visited with bindings
\* in place, some of them of its own nodes.
NegatedInside ==
  {AndPattern(31, AddWW, NotPattern(30, p)) :
     p \in {W1, K, CallPattern(33, LAdd, <<W2, W1>>)}}
    \cup {CallPattern(33, LAdd, <<W1, NotPattern(30, W1)>>)}

\* Binary call patterns whose op is a wildcard or the literal divide.
OtherOpCalls == {CallPattern(33, o, <<K, V>>) : o \in {W4, LDiv}}

\* Dataflow var patterns, and add(x, y) over two Var pattern objects with
\* hints that are no names of the model, the names a and b, or empty.
DataflowVarPatterns == {DataflowVarPattern(57, hint) : hint \in {"", "a", "d"}}
AddXY == CallPattern(53, LAdd, <<VarPattern(54, "x"), VarPattern(55, "y")>>)
AddAB == CallPattern(53, LAdd, <<VarPattern(54, "a"), VarPattern(55, "b")>>)
AddAny == CallPattern(53, LAdd, <<VarPattern(54, ""), VarPattern(55, "")>>)

\* Dominator patterns nested as the path and as the parent of another.
DomNestPath ==
  DominatorPattern(24, W1, DominatorPattern(25, Va, W2, K), Relu)
DomNestParent ==
  DominatorPattern(26, W1, W2, DominatorPattern(27, W3, W4, K))

\* Three distinct leaf pattern objects.
LeafTriples ==
  {t \in [1..3 -> {W1, V, K}] : t[1] # t[2] /\ t[1] # t[3] /\ t[2] # t[3]}

DivOfMulPatterns == {DivOfMul(t[1], t[2], t[3]) : t \in LeafTriples}
MulOfDivPatterns ==
  {MulOfDiv(t[1], t[2], t[3]) : t \in LeafTriples}
    \cup {DivTimes(t[1], t[2], t[3]) : t \in LeafTriples}

Patterns ==
  Plain \cup Dominating \cup NotPatterns \cup AndPatterns \cup OrPatterns
    \cup BinaryCallPatterns \cup DivOfMulPatterns \cup MulOfDivPatterns
    \cup {MulVV} \cup ShortCalls \cup ShapePatterns \cup {NestedDivOfMul}
    \cup NegatedInside \cup OtherOpCalls \cup DataflowVarPatterns
    \cup {AddXY, AddAB, AddAny} \cup {DomNestPath, DomNestParent}

\* The patterns of the first revision (no And, no Not; its shape pattern
\* compares inferred tensor types and is not modelled) and of the second
\* (no dominator pattern).
FirstPatterns ==
  {p \in Patterns : ~HasKind(p, "And") /\ ~HasKind(p, "Not") /\ ~HasKind(p, "Shape")}
SecondPatterns == {p \in Patterns : ~HasKind(p, "Dominator")}

\* What a matcher that has already served a call is asked next.
LaterPatterns == {V, AddVV, DomRelu, DomCall, DomShared, DomDiv, NotPattern(30, K)}
LaterExprs == {"a", "v1", "add_a_b", "top", "big"}

(***************************************************************************)
(* The state machine: one DFPatternMatcher from its construction on.       *)
(***************************************************************************)
VARIABLES
  memo,           \* memo_
  matched_nodes,  \* matched_nodes_
  memoize,        \* memoize_
  autojump,       \* autojump_
  hasMap,         \* var2val_ is defined
  root,           \* the expression expr_graph_ was built from
  calls,          \* Match calls served so far
  pattern,        \* the arguments of the last Match call ...
  expr,
  result,         \* ... and how it ended: "true", "false" or "raise"
  visits,         \* the dispatcher calls the last Match call made
  attr_value,     \* the arguments of a MatchRetValue call: the pattern's literal
  ret_value,      \* ... and the runtime attribute value,
  matches         \* and how the call ended

vars == <<memo, matched_nodes, memoize, autojump, hasMap, root, calls, pattern,
          expr, result, visits, attr_value, ret_value, matches>>

Init ==
  /\ memo = EmptyMemo
  /\ matched_nodes = <<>>
  /\ memoize = TRUE
  /\ autojump = FALSE
  /\ hasMap = FALSE
  /\ root = NoExpr
  /\ calls = 0
  /\ pattern = W1
  /\ expr = NoExpr
  /\ result = "none"
  /\ visits = {}
  /\ attr_value = NoValue
  /\ ret_value = NoValue
  /\ matches = "none"

\* The matcher as the variables hold it.
Self ==
  [memo |-> memo, mn |-> matched_nodes, memoize |-> memoize, autojump |-> autojump,
   hasMap |-> hasMap, root |-> root, fresh |-> 0, built |-> {}, active |-> <<>>,
   pushes |-> {}, err |-> FALSE, out |-> FALSE, log |-> {}]

Outcome(r) == IF r.err THEN "raise" ELSE IF r.out THEN "true" ELSE "false"

\* The matcher and the call's record after a Match call that ended in r.
Served(r, p, e) ==
  /\ memo' = r.memo
  /\ matched_nodes' = r.mn
  /\ memoize' = r.memoize
  /\ autojump' = r.autojump
  /\ hasMap' = r.hasMap
  /\ root' = r.root
  /\ calls' = calls + 1
  /\ pattern' = p
  /\ expr' = e
  /\ result' = Outcome(r)
  /\ visits' = r.log
  /\ UNCHANGED <<attr_value, ret_value, matches>>

\* MatchPattern(pattern, expr): DFPatternMatcher(expr).Match(pattern, expr)
MatchPattern(p, e) ==
  /\ calls = 0
  /\ Served(Match(NewMatcher(e, FALSE), p, e, FALSE), p, e)

\* MatchExprPattern(pattern, expr, var2val): auto-jump iff var2val is given
MatchExprPattern(p, e, withMap) ==
  /\ calls = 0
  /\ Served(Match(NewMatcher(NoExpr, withMap), p, e, withMap), p, e)

\* A further Match call on the matcher that served the earlier ones; Match
\* has the autojump parameter in the second revision only.
MatchAgain(p, e, aj) ==
  /\ calls > 0
  /\ calls < MaxCalls
  /\ IF root # NoExpr THEN p \in FirstPatterns /\ ~aj ELSE p \in SecondPatterns
  /\ Served(Match(Self, p, e, aj), p, e)

Next ==
  \/ \E p \in FirstPatterns, e \in ExprIds : MatchPattern(p, e)
  \/ \E p \in SecondPatterns, e \in ExprIds, withMap \in BOOLEAN :
       MatchExprPattern(p, e, withMap)
  \/ \E p \in LaterPatterns, e \in LaterExprs, aj \in BOOLEAN : MatchAgain(p, e, aj)

Spec == Init /\ [][Next]_vars

(***************************************************************************)
(* MatchRetValue on its own: a literal and a runtime value are given, and  *)
(* the call is made.                                                       *)
(***************************************************************************)
matcher_vars ==
  <<memo, matched_nodes, memoize, autojump, hasMap, root, calls, pattern, expr,
    result, visits>>

RetInit ==
  /\ memo = EmptyMemo
  /\ matched_nodes = <<>>
  /\ memoize = TRUE
  /\ autojump = FALSE
  /\ hasMap = FALSE
  /\ root = NoExpr
  /\ calls = 0
  /\ pattern = W1
  /\ expr = NoExpr
  /\ result = "none"
  /\ visits = {}
  /\ attr_value \in Literals
  /\ ret_value \in RetValues
  /\ matches = "none"

CallMatchRetValue ==
  /\ matches = "none"
  /\ matches' = MatchRetValue(attr_value, ret_value)
  /\ UNCHANGED <<attr_value, ret_value>>
  /\ UNCHANGED matcher_vars

RetNext == CallMatchRetValue

RetSpec == RetInit /\ [][RetNext]_vars

(***************************************************************************)
(* Properties of the matcher's records after a Match call.                 *)
(***************************************************************************)
Keys(f) == DOMAIN f

Occurrences(seq, x) == Cardinality({i \in DOMAIN seq : seq[i] = x})

\* C1: after every Match call, whatever the pattern (dominator patterns
\* included), matched_nodes has exactly as many entries as memo has keys.
C1_LengthsAgree ==
  calls > 0 => Len(matched_nodes) = Cardinality(Keys(memo))

\* C2: whenever Match returns false, memo and matched_nodes are both empty.
C2_FalseLeavesNothing ==
  result = "false" => Keys(memo) = {} /\ matched_nodes = <<>>

\* A call that returned false after some visit inside it had matched and
\* recorded its pattern.
C2_Witness ==
  /\ result = "false"
  /\ \E v \in visits : v.out /\ ~v.err /\ Len(v.mn1) > Len(v.mn0)

\* C3: whenever Match returns true, every key of memo holds exactly one
\* expression and occurs exactly once in matched_nodes.
C3_OneExprPerPattern ==
  result = "true" =>
    \A k \in Keys(memo) : Len(memo[k]) = 1 /\ Occurrences(matched_nodes, k) = 1

\* C4: every dispatcher visit that returns false, also one made while
\* memoize is false, leaves memo and matched_nodes exactly as they were when
\* the visit began.
C4_RollbackExact ==
  \A v \in visits : (~v.err /\ ~v.out) => v.memo1 = v.memo0 /\ v.mn1 = v.mn0

\* C5: a visit made with memoize true of a pattern that is a key of memo
\* returns true iff the expression is the stored one, and changes neither
\* memo nor matched_nodes.
C5_MemoHit ==
  \A v \in visits :
    (v.memoize0 /\ v.pat \in Keys(v.memo0)) =>
      /\ ~v.err
      /\ v.out = (v.expr = v.memo0[v.pat][1])
      /\ v.memo1 = v.memo0
      /\ v.mn1 = v.mn0

(***************************************************************************)
(* Laws of Match.  Each compares the call the matcher has just served with *)
(* calls on a matcher newly constructed the same way.                       *)
(***************************************************************************)
Fresh == [NewMatcher(root, hasMap) EXCEPT !.autojump = autojump]

\* Match(p, expr) on a new matcher, with the auto-jump of the last call.
FreshMatch(p) == Match(NewMatcher(root, hasMap), p, expr, autojump)

SameEnd(r) ==
  /\ result = Outcome(r)
  /\ memo = r.memo
  /\ matched_nodes = r.mn

\* C6: Match is free of history: on a matcher that has served earlier calls
\* (matched or not, with or without dominator patterns) it returns what a
\* new matcher returns and leaves the same memo and matched_nodes.
C6_HistoryFree == calls > 1 => SameEnd(FreshMatch(pattern))

Negation(r) ==
  IF r.err THEN "raise" ELSE IF r.out THEN "false" ELSE "true"

\* C7: Match(Not(p), e) is the negation of Match(p, e), for every pattern
\* and expression.
C7_NotDuality ==
  (calls = 1 /\ pattern.kind = "Not") => result = Negation(FreshMatch(pattern.kids[1]))

Conjunction(l, r) ==
  IF l.err THEN "raise" ELSE IF ~l.out THEN "false" ELSE Outcome(r)

\* C8: when L and R share no pattern node, Match(And(L, R), e) is
\* Match(L, e) and Match(R, e).
C8_AndConjunction ==
  (/\ calls = 1
   /\ pattern.kind = "And"
   /\ PatIds(pattern.kids[1]) \cap PatIds(pattern.kids[2]) = {})
    => result = Conjunction(FreshMatch(pattern.kids[1]), FreshMatch(pattern.kids[2]))

\* C9: when Match(L, e) or Match(R, e) is true, Match(Or(L, R), e) is true,
\* in either order of the alternatives (both orders are patterns of the
\* model).
C9_AltOnSuccess ==
  (/\ calls = 1
   /\ pattern.kind = "Or"
   /\ \/ Outcome(FreshMatch(pattern.kids[1])) = "true"
      \/ Outcome(FreshMatch(pattern.kids[2])) = "true")
    => result = "true"

\* A call pattern of literal add or multiply with two arguments, matched
\* against a call of that op with two arguments.
CommutativeCase ==
  /\ calls = 1
  /\ pattern.kind = "Call"
  /\ get_op_node(pattern) \in {"add", "multiply"}
  /\ pattern.argsDefined
  /\ Len(CallArgs(pattern)) = 2
  /\ Heap[expr].kind = "Call"
  /\ Heap[expr].op = get_op_node(pattern)
  /\ Len(Heap[expr].args) = 2

\* The matcher after the op pattern of the last call matched the op.
PostOp == VisitDFPattern(Fresh, CallOp(pattern), Heap[expr].op)

ThenMatches(r, y, ey) == IF r.err \/ ~r.out THEN r ELSE VisitDFPattern(r, y, ey)

\* x matches the first argument and then y the second, from matcher m.
InOrderFrom(m, x, y) ==
  ThenMatches(VisitDFPattern(m, x, Heap[expr].args[1]), y, Heap[expr].args[2])

EitherOrder(inOrder, reversed) ==
  IF inOrder.err THEN "raise"
  ELSE IF inOrder.out THEN "true"
  ELSE Outcome(reversed)

\* C10: a call pattern of literal add or multiply with arguments [pa, pb]
\* matches a call of that op with arguments [ea, eb] iff pa matches ea and
\* then pb matches eb, or that fails and pb matches ea and then pa matches
\* eb, each order tried from the state the op match left.
C10_Commutative ==
  CommutativeCase =>
    result = EitherOrder(InOrderFrom(PostOp, CallArgs(pattern)[1], CallArgs(pattern)[2]),
                         InOrderFrom(PostOp, CallArgs(pattern)[2], CallArgs(pattern)[1]))

\* A match that the reversed order gave after the first argument of the
\* order as written had matched and the second had not.
C10_Witness ==
  /\ CommutativeCase
  /\ result = "true"
  /\ ~InOrderFrom(PostOp, CallArgs(pattern)[1], CallArgs(pattern)[2]).out
  /\ VisitDFPattern(PostOp, CallArgs(pattern)[1], Heap[expr].args[1]).out

(***************************************************************************)
(* The associative rewrites of multiply and divide.                        *)
(***************************************************************************)
\* Match(p, e) is true on a new matcher, with the auto-jump of the last call.
MatchesOn(p, e) == Outcome(Match(NewMatcher(root, hasMap), p, e, autojump)) = "true"

IsBinaryCallOf(e, op_type) ==
  e \in ExprIds /\ is_expr_op(e, op_type) /\ Len(Heap[e].args) = 2

\* (a * b) / c was matched against ea * (eb / ec), and a, b, c match ea,
\* eb, ec.
AssocDivideCase ==
  /\ calls = 1
  /\ pattern \in DivOfMulPatterns
  /\ IsBinaryCallOf(expr, "multiply")
  /\ IsBinaryCallOf(Heap[expr].args[2], "divide")
  /\ MatchesOn(CallArgs(CallArgs(pattern)[1])[1], Heap[expr].args[1])
  /\ MatchesOn(CallArgs(CallArgs(pattern)[1])[2], Heap[Heap[expr].args[2]].args[1])
  /\ MatchesOn(CallArgs(pattern)[2], Heap[Heap[expr].args[2]].args[2])

\* C11: the pattern (a * b) / c matches the expression ea * (eb / ec)
\* whenever the distinct leaf patterns a, b, c match ea, eb, ec.
C11_AssociateDivide == AssocDivideCase => result = "true"

C11_Witness == AssocDivideCase /\ result = "true"

\* The leaf a and the divide pattern b / c of a * (b / c) or (b / c) * a.
LeafOf(p) == IF CallArgs(p)[1].kind = "Call" THEN CallArgs(p)[2] ELSE CallArgs(p)[1]
DivideOf(p) == IF CallArgs(p)[1].kind = "Call" THEN CallArgs(p)[1] ELSE CallArgs(p)[2]

\* a * (b / c), the divide in either position, was matched against
\* (ea * eb) / ec, and a, b, c match ea, eb, ec.
AssocMultiplyCase ==
  /\ calls = 1
  /\ pattern \in MulOfDivPatterns
  /\ IsBinaryCallOf(expr, "divide")
  /\ IsBinaryCallOf(Heap[expr].args[1], "multiply")
  /\ MatchesOn(LeafOf(pattern), Heap[Heap[expr].args[1]].args[1])
  /\ MatchesOn(CallArgs(DivideOf(pattern))[1], Heap[Heap[expr].args[1]].args[2])
  /\ MatchesOn(CallArgs(DivideOf(pattern))[2], Heap[expr].args[2])

\* C12: the pattern a * (b / c), the divide in either argument position,
\* matches the expression (ea * eb) / ec whenever the leaf patterns a, b, c
\* match ea, eb, ec.
C12_AssociateMultiply == AssocMultiplyCase => result = "true"

\* Such a match of the pattern with the divide in the first position.
C12_Witness ==
  AssocMultiplyCase /\ result = "true" /\ CallArgs(pattern)[1].kind = "Call"

(***************************************************************************)
(* Var patterns, auto-jump and invariant violations.                       *)
(***************************************************************************)
\* The last call was a MatchPattern or MatchExprPattern call, or a Match
\* call with a var2val map whenever it asked for auto-jump.
WellFormedCall == calls = 1 /\ (autojump => hasMap)

\* C13: multiply(x, y) with two empty-hint Var patterns x, y matches
\* multiply(k, 1) and multiply(1, k), k a variable and 1 a constant.
C13_MultiplyByConstant ==
  (WellFormedCall /\ pattern = MulVV /\ expr \in {"mul_a_c", "mul_c_a"})
    => result = "true"

\* C13 as the code has it: a Var pattern matches Var expressions only, so the
\* pattern matches neither multiply(k, 1) nor multiply(1, k), in order or
\* reversed; it matches multiply(k, j) for variables k and j.
C13_VariablesOnly ==
  (WellFormedCall /\ pattern = MulVV)
    => /\ expr \in {"mul_a_c", "mul_c_a"} => result = "false"
       /\ expr = "mul_a_b" => result = "true"

\* multiply(1, k) was tried in order and reversed and did not match.
C13_Witness ==
  /\ WellFormedCall /\ pattern = MulVV /\ expr = "mul_c_a" /\ result = "false"
  /\ \E v \in visits : v.pat = CallArgs(MulVV)[2].id /\ v.expr = "c"

\* C14: an empty-hint Var pattern matches every Var expression, whatever
\* autojump and var2val are: the Var is judged itself, not its value.
C14_VarPatternNoJump ==
  (WellFormedCall /\ pattern = V /\ IsVar(expr)) => result = "true"

\* C15: add(W1, W2) matches the Var v2 bound to add(a, b) when auto-jump is
\* on; with auto-jump off it does not, and v2 is not replaced by its value.
C15_AutoJump ==
  (calls = 1 /\ pattern = AddWW /\ expr = "v2")
    => IF autojump /\ hasMap THEN result = "true"
       ELSE result = "false" /\ \A v \in visits : v.expr = "v2"

C15_Witness ==
  calls = 1 /\ pattern = AddWW /\ expr = "v2" /\ autojump /\ result = "true"

\* C16: a call pattern of literal divide or multiply with args absent or
\* fewer than two, against a call of another op, returns false and does not
\* raise.
C16_NoRaiseOnMismatch ==
  (/\ WellFormedCall
   /\ pattern \in ShortCalls
   /\ Heap[expr].kind = "Call"
   /\ Heap[expr].op # get_op_node(pattern))
    => result = "false"

\* C17: auto-jump without a var2val map makes Match raise, for every
\* pattern and expression.
C17_AlwaysRaises == (calls > 0 /\ autojump /\ ~hasMap) => result = "raise"

EndsAs(r) == result = Outcome(r)

\* C17 as the code has it: auto-jump without a var2val map makes Match raise
\* when a Var expression is visited; a call that visits none ends as it
\* does with auto-jump off.
C17_RaisesOnVar ==
  (calls > 0 /\ autojump /\ ~hasMap)
    => IF \E v \in visits : IsVar(v.expr) THEN result = "raise"
       ELSE EndsAs(Match(NewMatcher(root, hasMap), pattern, expr, FALSE))

\* A match with auto-jump on and no var2val map.
C17_Witness == calls > 0 /\ autojump /\ ~hasMap /\ result = "true"

(***************************************************************************)
(* The shape pattern.                                                      *)
(***************************************************************************)
\* The expression the pattern of the last call was visited on: the
\* expression of the call after the dispatcher's auto-jump.
Visited == TryGetValOfVar(Fresh, expr)

\* The shape of e is a ShapeExpr with as many dimensions as dims, equal to
\* dims one by one.
HasShape(e, dims) ==
  /\ ShapeOf[e] \in DOMAIN ShapeArrays
  /\ Len(ShapeArrays[ShapeOf[e]]) = Len(dims)
  /\ \A i \in 1..Len(dims) : ShapeArrays[ShapeOf[e]][i] = dims[i]

PathInputs(e) ==
  {n \in Range(ExprGraph[root][e].inputs_) : ~(Heap[e].kind = "Call" /\ n = Heap[e].op)}

\* Every input of e matches parent, or matches path and has the same
\* property; no order of the inputs is involved.
RECURSIVE EveryInput(_, _)
EveryInput(op, e) ==
  \A n \in PathInputs(e) :
    \/ MatchesOn(op.kids[3], n)
    \/ MatchesOn(op.kids[2], n) /\ EveryInput(op, n)

PathIsEveryInput(r) == ~r.err => (r.out <=> EveryInput(pattern, expr))

PathAfterChildIsEveryInput(child) ==
  (~child.err /\ child.out) => PathIsEveryInput(MatchesPath(child, pattern, expr))

\* C19: MatchesPath(op, expr) returns true iff every input of expr other
\* than the op of a call matches parent, or matches path and MatchesPath
\* holds for it; the order of the inputs does not matter.
C19_EveryInput ==
  (calls = 1 /\ pattern.kind = "Dominator" /\ root = expr)
    => PathAfterChildIsEveryInput(VisitDFPattern(Fresh, pattern.kids[1], expr))

\* C20: during MatchesPath a successful visit made with memoize false (a
\* visit of the path pattern) adds nothing to memo or matched_nodes; only
\* matches of the parent pattern do.
C20_PathAddsNothing ==
  \A v \in visits :
    (~v.memoize0 /\ v.out /\ ~v.err) => v.memo1 = v.memo0 /\ v.mn1 = v.mn0

(***************************************************************************)
(* The dominator pattern as a whole.                                       *)
(***************************************************************************)
\* The nodes reachable from e through dominator_children_ edges, in one or
\* more steps.
RECURSIVE DominatorDescendants(_)
DominatorDescendants(e) ==
  UNION {{n} \cup DominatorDescendants(n) :
           n \in Range(ExprGraph[root][e].dominator_children_)}

PathHolds(r) == ~r.err /\ r.out

\* child matched expr (leaving the matcher as in child), MatchesPath holds
\* for expr, and parent matches some dominator-tree descendant of expr.
DominatorHolds(child) ==
  /\ ~child.err /\ child.out
  /\ PathHolds(MatchesPath(child, pattern, expr))
  /\ \E n \in DominatorDescendants(expr) : MatchesOn(pattern.kids[3], n)

\* C21: Dominator(child, path, parent) matches expr iff child matches expr,
\* MatchesPath holds for expr, and some node reachable from expr through
\* dominator_children edges matches parent.
C21_DominatorIff ==
  (calls = 1 /\ pattern.kind = "Dominator")
    => (result = "true" <=> DominatorHolds(VisitDFPattern(Fresh, pattern.kids[1], expr)))

(***************************************************************************)
(* Termination: the measures that bound the dominator traversal and the    *)
(* associative rewrites.                                                   *)
(***************************************************************************)
\* The expressions below e: its op and arguments, and theirs.
RECURSIVE SubExprs(_)
SubExprs(e) == UNION {{n} \cup SubExprs(n) : n \in Range(Inputs(e))}

\* No DominatesParent pushed a node twice.
PushedOnce(r) ==
  \A q \in r.pushes : \A i, j \in DOMAIN q : q[i] = q[j] => i = j

\* Every rewrite was made by the handler of a pattern of the user's tree.
NoNestedRewrite(r) == \A b \in r.built : b.by > 0

\* Every rewrite made by the handler of a constructed pattern was made on
\* an expression below the one that pattern was constructed for.
RewritesDescend(r) ==
  \A b \in r.built :
    b.by < 0 =>
      /\ \E b0 \in r.built : b.by \in b0.ids
      /\ \A b0 \in r.built : b.by \in b0.ids => b.expr \in SubExprs(b0.expr)

\* C22: Match terminates: DominatesParent pushes each graph node at most
\* once, and the patterns the associative rewrites construct never trigger
\* a further rewrite.
C22_NoFurtherRewrite ==
  calls = 1 =>
    /\ result \in {"true", "false", "raise"}
    /\ PushedOnce(FreshMatch(pattern))
    /\ NoNestedRewrite(FreshMatch(pattern))

\* C22 as the code has it: a constructed pattern can trigger a further
\* rewrite, but only on an expression below the one it was constructed for,
\* so the depth of the rewrites is bounded by the depth of the expression.
C22_RewritesDescend ==
  calls = 1 =>
    /\ result \in {"true", "false", "raise"}
    /\ PushedOnce(FreshMatch(pattern))
    /\ RewritesDescend(FreshMatch(pattern))

\* A match found by a rewrite that the handler of a constructed pattern made.
C22_Witness ==
  /\ calls = 1
  /\ result = "true"
  /\ \E b \in FreshMatch(pattern).built : b.by < 0

(***************************************************************************)
(* Not and the bindings of the rejected pattern.                           *)
(***************************************************************************)
\* C23: a visit of Not(P) that returns true adds no key to memo but the Not
\* node itself and changes no entry; one that returns false leaves memo and
\* matched_nodes as they were before the visit.  No node of P is bound by it.
C23_NotAddsNothing ==
  \A v \in visits :
    (v.kind = "Not" /\ ~v.err) =>
      IF v.out
      THEN /\ Keys(v.memo1) \ Keys(v.memo0) \subseteq {v.pat}
           /\ \A k \in Keys(v.memo0) : k \in Keys(v.memo1) /\ v.memo1[k] = v.memo0[k]
      ELSE v.memo1 = v.memo0 /\ v.mn1 = v.mn0

\* A visit of Not(P) that failed after the visit of P, begun in the same
\* state on the same expression, had bound nodes of P.
C23_Witness ==
  \E v \in visits :
    /\ v.kind = "Not" /\ ~v.err /\ ~v.out
    /\ \E w \in visits :
         /\ w.pat # v.pat /\ w.expr = v.expr /\ w.mn0 = v.mn0 /\ w.memo0 = v.memo0
         /\ w.out /\ Len(w.mn1) > Len(w.mn0) + 1

(***************************************************************************)
(* Call patterns of other ops: no reversed retry.                          *)
(***************************************************************************)
\* A call pattern with two arguments whose op is not the literal add or
\* multiply, matched against a call with two arguments whose op the op
\* pattern matches.
OrderedCase ==
  /\ calls = 1
  /\ pattern.kind = "Call"
  /\ pattern.argsDefined
  /\ Len(CallArgs(pattern)) = 2
  /\ get_op_node(pattern) \notin {"add", "multiply"}
  /\ Heap[expr].kind = "Call"
  /\ Len(Heap[expr].args) = 2
  /\ PathHolds(PostOp)

\* C24: a call pattern whose op is another literal (subtract, divide) or no
\* literal (a wildcard) matches its arguments in order only: it matches iff
\* pa matches ea and then pb matches eb, also when the swapped pairing
\* matches.
C24_InOrderOnly ==
  OrderedCase =>
    EndsAs(InOrderFrom(PostOp, CallArgs(pattern)[1], CallArgs(pattern)[2]))

\* subtract(pa, pb) did not match subtract(ea, eb) although pb matches ea
\* and pa matches eb.
C24_Witness ==
  /\ OrderedCase
  /\ get_op_node(pattern) = "subtract"
  /\ result = "false"
  /\ PathHolds(InOrderFrom(PostOp, CallArgs(pattern)[2], CallArgs(pattern)[1]))

(***************************************************************************)
(* Name hints.                                                             *)
(***************************************************************************)
HintAllows(p, e) == p.name = "" \/ p.name = Heap[e].name

\* A Var pattern matches the variables its hint allows, a DataflowVar
\* pattern the dataflow variables its hint allows.
VarPatternMatches(p, e) ==
  /\ HintAllows(p, e)
  /\ IF p.kind = "DataflowVar" THEN Heap[e].kind = "DataflowVar" ELSE IsVar(e)

\* C25: without auto-jump a Var pattern matches an expression iff it is a
\* variable and the hint is empty or its name; a DataflowVar pattern
\* matches only dataflow variables, never a plain Var; add(x, y) with hints
\* "x" and "y" does not match add(a, b), with the hints empty it does.
C25_NameHints ==
  (calls > 0 /\ ~autojump) =>
    /\ pattern.kind \in {"Var", "DataflowVar"} =>
         result = (IF VarPatternMatches(pattern, expr) THEN "true" ELSE "false")
    /\ (pattern = AddXY /\ expr = "add_a_b") => result = "false"
    /\ (pattern = AddAny /\ expr = "add_a_b") => result = "true"

\* A DataflowVar pattern whose hint allows the name was matched against a
\* plain Var.
C25_Witness ==
  /\ calls > 0 /\ ~autojump
  /\ pattern.kind = "DataflowVar"
  /\ Heap[expr].kind = "Var"
  /\ HintAllows(pattern, expr)
  /\ result = "false"

(***************************************************************************)
(* MatchRetValue.                                                          *)
(***************************************************************************)
Supported == {"kDLInt", "kDLFloat", "kTVMStr", "kTVMDataType", "kTVMObjectHandle"}

\* The literal is of the kind of the runtime value.
SameKind(lit, val) ==
  CASE val.code = "kDLInt" -> lit.kind = "IntImm"
    [] val.code = "kDLFloat" -> lit.kind = "FloatImm"
    [] val.code \in {"kTVMStr", "kTVMDataType"} -> IsStringLiteral(lit)
    [] val.code = "kTVMObjectHandle" ->
         IF val.kind = "StringObj" THEN IsStringLiteral(lit) ELSE lit.kind = val.kind
    [] OTHER -> FALSE

Differs(lit, val) == ~SameKind(lit, val) \/ lit.value # val.value

C27_MemoizeRestored ==
  /\ (calls > 0 /\ result # "raise") => memoize
  /\ \A v \in visits : (v.kind = "Dominator" /\ ~v.err) => v.memoize1

(***************************************************************************)
(* Patterns without a dominator node.                                      *)
(***************************************************************************)
\* Every key of memo holds one expression and occurs once in matched_nodes.
OneEach(f, seq) ==
  /\ \A k \in Keys(f) : Len(f[k]) = 1
  /\ \A i, j \in DOMAIN seq : seq[i] = seq[j] => i = j

\* C28: during and after a Match call on a pattern tree without a dominator
\* node, every memo key holds exactly one expression and matched_nodes has
\* no duplicate, so the size assertion of the memo lookup cannot fire.
C28_NoDuplicates ==
  (calls > 0 /\ ~HasKind(pattern, "Dominator")) =>
    /\ OneEach(memo, matched_nodes)
    /\ \A v \in visits : OneEach(v.memo0, v.mn0) /\ OneEach(v.memo1, v.mn1)

(***************************************************************************)
(* What memo holds after a match found by an associative rewrite.          *)
(***************************************************************************)
\* The call pattern nodes of the tree p.
RECURSIVE CallIds(_)
CallIds(p) ==
  (IF p.kind = "Call" THEN {p.id} ELSE {})
    \cup UNION {CallIds(p.kids[i]) : i \in DOMAIN p.kids}

\* The last call matched a multiply or divide call pattern against a call
\* of another op: the match was found by an associative rewrite.
ThroughRewrite ==
  /\ calls > 0
  /\ result = "true"
  /\ pattern.kind = "Call"
  /\ get_op_node(pattern) \in {"multiply", "divide"}
  /\ Heap[expr].kind = "Call"
  /\ Heap[expr].op # get_op_node(pattern)

\* C29: after a match found by an associative rewrite every call pattern
\* node of the user's pattern tree is a key of memo, and memo has no key
\* that is no node of that tree.
C29_CapturesReadable ==
  ThroughRewrite =>
    /\ CallIds(pattern) \subseteq Keys(memo)
    /\ Keys(memo) \subseteq PatIds(pattern)


\* The argument of a multiply or divide call pattern that is a call pattern.
InnerCall(p) == IF CallArgs(p)[1].kind = "Call" THEN CallArgs(p)[1] ELSE CallArgs(p)[2]

\* C29 as the code has it: after a match found by an associative rewrite
\* memo holds the outer call pattern and every node of the user's tree that
\* is no call pattern, but not the inner call pattern, which was never
\* visited; it holds the constructed call pattern that matched expr instead.
C29_SyntheticBound ==
  ThroughRewrite =>
    /\ pattern.id \in Keys(memo)
    /\ InnerCall(pattern).id \notin Keys(memo)
    /\ (PatIds(pattern) \ CallIds(pattern)) \subseteq Keys(memo)
    /\ \E k \in Keys(memo) : k < 0 /\ memo[k] = <<expr>>

\* (a * b) / c matched ea * (eb / ec).
C29_Witness == ThroughRewrite /\ pattern \in DivOfMulPatterns

(***************************************************************************)
(* Chains of variable bindings.                                            *)
(***************************************************************************)
\* The expression at the end of the var2val chain that starts at e.
RECURSIVE ChainEnd(_)
ChainEnd(e) == IF IsVar(e) /\ e \in DOMAIN var2val THEN ChainEnd(var2val[e]) ELSE e

\* C30: with auto-jump on, a call pattern that matches the call expression
\* at the end of a var2val chain matches the Var the chain starts at,
\* whatever the length of the chain.
C30_ChainFollowed ==
  (/\ calls = 1 /\ autojump /\ hasMap
   /\ pattern.kind = "Call"
   /\ IsVar(expr)
   /\ Heap[ChainEnd(expr)].kind = "Call"
   /\ MatchesOn(pattern, ChainEnd(expr)))
    => result = "true"

====
